---- MODULE Spec2Model ----
(***************************************************************************)
(* Model of github.com/krhubert/assert: the assertion functions of         *)
(* assert.go (the go-cmp based snapshot, lines 1-367, and the reflect      *)
(* based snapshot, lines 369-772), the comparison options of cmdopts.go    *)
(* and the test handle assertTB the package's tests observe them with.     *)
(*                                                                         *)
(* A Go value is a record                                                  *)
(*   [type, kind, isnil, addr, n, elems]                                   *)
(* type  : its dynamic type, kind : its reflect.Kind,                      *)
(* isnil : reflect's IsNil for the kinds that have it,                     *)
(* addr  : the address a pointer, slice, map, chan or func holds (0: nil), *)
(* n     : the payload of a number,                                        *)
(* elems : the pointee of a pointer, the elements of a slice, the fields   *)
(*         of a struct, the key/value pairs of a map.                      *)
(***************************************************************************)
EXTENDS Integers, Sequences, FiniteSets, TLC

\* V, got, want, opts : the type argument and the arguments of the calls;
\* op : the assertion called last ("" before the first call);
\* atb : the test handle (assertTB) that call was given.
VARIABLES V, got, want, opts, op, atb, f, ret, test, suite, calls

vars == <<V, got, want, opts, op, atb, f, ret, test, suite, calls>>

(***************************************************************************)
(* Bounds of the value universe.                                           *)
(***************************************************************************)
MaxInt == 1      \* ints and bytes are 0..MaxInt
MaxLen == 2      \* length of the arrays byte slices are cut from
Copies == 2      \* distinct addresses holding the same value
MaxOpts == 3     \* number of options given to a call
MaxStr == 2
MaxSuites == 2
MaxCalls == 2
Goroutines == 2      \* length of an error message and of a string target

Val(type, kind, isnil, addr, n, elems) ==
    [type |-> type, kind |-> kind, isnil |-> isnil,
     addr |-> addr, n |-> n, elems |-> elems]

\* reflect.Value{} : what reflect.ValueOf(nil) and Elem() of a nil pointer give;
\* also the nil interface value itself.
Invalid == Val("", "invalid", TRUE, 0, 0, <<>>)

IntV(i)   == Val("int", "int", FALSE, 0, i, <<>>)
ByteV(i)  == Val("uint8", "uint8", FALSE, 0, i, <<>>)
FloatV(i) == Val("float64", "float64", FALSE, 0, i, <<>>)
NilOf(type, kind) == Val(type, kind, TRUE, 0, 0, <<>>)
PtrV(type, addr, elem) == Val(type, "ptr", FALSE, addr, 0, <<elem>>)
SliceV(type, addr, elems) == Val(type, "slice", FALSE, addr, 0, elems)
StructV(type, fields) == Val(type, "struct", FALSE, 0, 0, fields)

Range(s) == {s[i] : i \in DOMAIN s}

\* A number that identifies a sequence of small numbers (used for addresses).
RECURSIVE Encode(_, _)
Encode(s, base) ==
    IF s = <<>> THEN 1 ELSE Encode(SubSeq(s, 1, Len(s) - 1), base) * base + s[Len(s)]

(***************************************************************************)
(* The value universe, by static type.                                     *)
(***************************************************************************)
Ints == {IntV(i) : i \in 0..MaxInt}

\* float64: 0 and NaN (payload -1).
NaN == FloatV(-1)

Floats == {FloatV(0), NaN}

\* *int: nil, and Copies distinct pointers to every int.
PtrInts ==
    {NilOf("*int", "ptr")} \cup
    {PtrV("*int", i * Copies + c, IntV(i)) : i \in 0..MaxInt, c \in 1..Copies}

\* **int: nil, and a pointer to every *int (a nil *int included).
PtrPtrInts ==
    {NilOf("**int", "ptr")} \cup
    {PtrV("**int", 100 + p.addr, p) : p \in PtrInts}

\* The arrays byte slices are cut from: all zero, or zero but at one index.
Arrays ==
    {[j \in 1..MaxLen |-> 0]} \cup
    {[j \in 1..MaxLen |-> IF j = p THEN b ELSE 0] : p \in 1..MaxLen, b \in 1..MaxInt}

\* []byte and net.IP: nil, and every prefix of every array, each array at Copies
\* addresses: slices with the same addr share their storage.
BytesOf(type) ==
    {NilOf(type, "slice")} \cup
    {SliceV(type, Encode(a, MaxInt + 1) * Copies + c,
            [i \in 1..k |-> ByteV(a[i])]) :
        a \in Arrays, c \in 1..Copies, k \in 0..MaxLen}

ByteSlices == BytesOf("[]byte")

IPs == {b \in BytesOf("net.IP") : b.isnil \/ b.addr % Copies = 1}

\* time.Time: an instant (ext) in a location (loc); both fields are unexported.
Times ==
    {StructV("time.Time", <<IntV(e), IntV(l)>>) : e \in 0..MaxInt, l \in 0..1}

PtrTimes ==
    {NilOf("*time.Time", "ptr")} \cup
    {PtrV("*time.Time", 200 + 2 * t.elems[1].n + t.elems[2].n, t) : t \in Times}

\* type T struct { A int; b int }
Ts == {StructV("T", <<a, b>>) : a \in Ints, b \in Ints}

\* type O struct { In T; c int }
Os == {StructV("O", <<t, c>>) : t \in Ts, c \in Ints}

\* type G struct { A int; b int }, with a method GoString that renders the
\* value in Go syntax, all fields included.
Gs == {StructV("G", <<a, b>>) : a \in Ints, b \in Ints}

\* []*int: nil, empty, and one pointer (possibly nil).
PtrIntSlices ==
    {NilOf("[]*int", "slice"), SliceV("[]*int", 300, <<>>)} \cup
    {SliceV("[]*int", 301 + p.addr, <<p>>) : p \in PtrInts}

\* map[int]int: nil, empty, one entry.
Maps ==
    {NilOf("map[int]int", "map"),
     Val("map[int]int", "map", FALSE, 400, 0, <<>>)} \cup
    {Val("map[int]int", "map", FALSE, 401 + i, 0, <<IntV(0), IntV(i)>>) :
        i \in 0..MaxInt}

Funcs == {NilOf("func()", "func"), Val("func()", "func", FALSE, 500, 0, <<>>)}

Chans ==
    {NilOf("chan int", "chan")} \cup
    {Val("chan int", "chan", FALSE, 600 + c, 0, <<>>) : c \in 1..Copies}

\* error: the nil interface, errors.New("0"), and a nil *fs.PathError held in
\* the interface.
ErrorTypes ==
    {"*errors.errorString", "*fs.PathError", "*json.SyntaxError",
     "*fmt.wrapError", "*fmt.wrapErrors", "MyErr", "*MyErr"}

Errors ==
    {Invalid,
     PtrV("*errors.errorString", 700, StructV("errors.errorString", <<>>)),
     NilOf("*fs.PathError", "ptr")}

\* any: the nil interface, or an int, a time.Time or a *int held in it.
Anys == {Invalid, IntV(0), PtrV("*int", 1, IntV(0))} \cup {t \in Times : t.elems[2].n = 0}

Types ==
    {"int", "float64", "*int", "**int", "[]byte", "net.IP", "time.Time",
     "*time.Time", "T", "O", "G", "[]*int", "map[int]int", "func()", "chan int",
     "error", "any"}

Universe(type) ==
    CASE type = "int" -> Ints
      [] type = "float64" -> Floats
      [] type = "*int" -> PtrInts
      [] type = "**int" -> PtrPtrInts
      [] type = "[]byte" -> ByteSlices
      [] type = "net.IP" -> IPs
      [] type = "time.Time" -> Times
      [] type = "*time.Time" -> PtrTimes
      [] type = "T" -> Ts
      [] type = "O" -> Os
      [] type = "G" -> Gs
      [] type = "[]*int" -> PtrIntSlices
      [] type = "map[int]int" -> Maps
      [] type = "func()" -> Funcs
      [] type = "chan int" -> Chans
      [] type = "error" -> Errors
      [] type = "any" -> Anys

\* The values of three more kinds a struct field may have.
Strings ==
    {Val("string", "string", FALSE, 0, 0, <<>>),
     Val("string", "string", FALSE, 0, 0, <<97>>)}

Bools == {Val("bool", "bool", FALSE, 0, b, <<>>) : b \in 0..1}

\* [MaxLen]int
IntArrays ==
    {Val("[MaxLen]int", "array", FALSE, 0, 0, [j \in 1..MaxLen |-> IntV(a[j])]) :
        a \in Arrays}

\* A value held in a field of static type any: its reflect.Value has the
\* kind Interface, whatever it holds.
IfaceV(x) ==
    Val("any", "interface", x = Invalid, 0, 0, IF x = Invalid THEN <<>> ELSE <<x>>)

\* type Box struct { X E }, one struct type for each field type E.
BoxElem(type) ==
    CASE type = "Box[int]" -> "int"
      [] type = "Box[float64]" -> "float64"
      [] type = "Box[bool]" -> "bool"
      [] type = "Box[string]" -> "string"
      [] type = "Box[[MaxLen]int]" -> "[MaxLen]int"
      [] type = "Box[*int]" -> "*int"
      [] type = "Box[[]byte]" -> "[]byte"
      [] type = "Box[map[int]int]" -> "map[int]int"
      [] type = "Box[func()]" -> "func()"
      [] type = "Box[chan int]" -> "chan int"
      [] type = "Box[any]" -> "any"
      [] type = "Box[time.Time]" -> "time.Time"
      [] type = "Box[T]" -> "T"

BoxTypes ==
    {"Box[int]", "Box[float64]", "Box[bool]", "Box[string]", "Box[[MaxLen]int]",
     "Box[*int]", "Box[[]byte]", "Box[map[int]int]", "Box[func()]",
     "Box[chan int]", "Box[any]", "Box[time.Time]", "Box[T]"}

FieldUniverse(type) ==
    CASE type = "bool" -> Bools
      [] type = "string" -> Strings
      [] type = "[MaxLen]int" -> IntArrays
      [] type = "any" -> {IfaceV(x) : x \in Anys}
      [] type = "[]byte" -> {b \in ByteSlices : b.isnil \/ b.addr % Copies = 1}
      [] OTHER -> Universe(type)

BoxUniverse(type) == {StructV(type, <<x>>) : x \in FieldUniverse(BoxElem(type))}

(***************************************************************************)
(* What the model knows of the types: field names, method sets.            *)
(***************************************************************************)
\* Field names are sequences of code points: "A", "b", "In", "c", "ext", "loc".
FieldNames(type) ==
    CASE type \in {"T", "G"} -> << <<65>>, <<98>> >>
      [] type = "O" -> << <<73, 110>>, <<99>> >>
      [] type = "time.Time" -> << <<101, 120, 116>>, <<108, 111, 99>> >>
      [] type \in BoxTypes -> << <<88>> >>
      [] OTHER -> <<>>

\* go/token.IsExported: the name begins with an upper-case letter.
IsExported(name) == name[1] \in 65..90

\* The parameter type of the method Equal(x) bool in the method set of type,
\* "" when the type has no such method. time.Time.Equal(u Time) is also in the
\* method set of *time.Time; net.IP has Equal(x IP).
EqualParam(type) ==
    CASE type = "time.Time" -> "time.Time"
      [] type = "*time.Time" -> "time.Time"
      [] type = "net.IP" -> "net.IP"
      [] OTHER -> ""

\* Mutant of bytesEqual: the slices are compared by the storage they hold.
bytesEqualByIdentity(a, b) == a.addr = b.addr /\ Len(a.elems) = Len(b.elems)

\* bytes.Equal: same length and same bytes; a nil slice is an empty one.
bytesEqual(a, b) ==
    /\ Len(a.elems) = Len(b.elems)
    /\ \A i \in 1..Len(a.elems) : a.elems[i].n = b.elems[i].n

\* What x.Equal(y) returns: time.Time.Equal compares the instants and not the
\* locations, net.IP.Equal the bytes.
MethodEqual(x, y) ==
    IF x.type = "time.Time" THEN x.elems[1].n = y.elems[1].n
    ELSE bytesEqual(x, y)

\* The types with a GoString method (fmt.GoStringer).
HasGoString(type) == type \in {"time.Time", "*time.Time", "G"}

\* The zero value of a struct type with an Equal method.
ZeroOf(type) == StructV(type, <<IntV(0), IntV(0)>>)

(***************************************************************************)
(* reflect.DeepEqual.                                                      *)
(***************************************************************************)
RECURSIVE deepEqual(_, _)
deepEqual(x, y) ==
    IF x.kind = "invalid" \/ y.kind = "invalid" THEN x.kind = y.kind
    ELSE IF x.type # y.type THEN FALSE
    ELSE CASE x.kind = "ptr" ->
                \/ x.addr = y.addr
                \/ /\ ~x.isnil
                   /\ ~y.isnil
                   /\ deepEqual(x.elems[1], y.elems[1])
           [] x.kind \in {"slice", "map"} ->
                /\ x.isnil = y.isnil
                /\ Len(x.elems) = Len(y.elems)
                /\ \/ x.addr = y.addr
                   \/ \A i \in 1..Len(x.elems) : deepEqual(x.elems[i], y.elems[i])
           [] x.kind \in {"struct", "array"} ->
                \A i \in 1..Len(x.elems) : deepEqual(x.elems[i], y.elems[i])
           [] x.kind = "interface" ->
                IF x.isnil \/ y.isnil THEN x.isnil /\ y.isnil
                ELSE deepEqual(x.elems[1], y.elems[1])
           [] x.kind = "string" -> x.elems = y.elems
           [] x.kind = "func" -> x.isnil /\ y.isnil
           [] x.kind = "chan" -> x.addr = y.addr
           [] x.kind = "float64" -> x.n = y.n /\ x # NaN
           [] OTHER -> x.n = y.n

(***************************************************************************)
(* assert.go, reflect based snapshot: isNil, deref, equal.                 *)
(***************************************************************************)
\* Mutant of isNil: only the nil interface counts as nil.
isNilUntyped(obj) == obj = Invalid

isNil(obj) ==
    IF obj = Invalid THEN TRUE
    ELSE IF obj.kind \in {"chan", "func", "map", "ptr", "unsafeptr", "interface", "slice"}
         THEN obj.isnil
         ELSE FALSE

\* The reflect.Value deref's loop ends with: Elem() of a nil pointer is the
\* zero Value, whose Kind is Invalid.
RECURSIVE derefValue(_)
derefValue(v) ==
    IF v.kind = "ptr"
    THEN IF v.isnil THEN Invalid ELSE derefValue(v.elems[1])
    ELSE v

\* v.Interface() panics on the zero Value.
derefPanics(a) == derefValue(a) = Invalid

deref(a) == derefValue(a)

\* equal panics: want.([]byte) fails, deref reaches a nil pointer, or
\* method.Call is given an argument that is not of the parameter's type.
equalReflectPanics(type, g, w) ==
    IF isNil(g) \/ isNil(w) THEN FALSE
    ELSE IF g.type = "[]byte" THEN w.type # "[]byte"
    ELSE IF EqualParam(g.type) = type THEN FALSE
    ELSE IF derefPanics(g) \/ derefPanics(w) THEN TRUE
    ELSE IF EqualParam(deref(g).type) # ""
         THEN deref(w).type # EqualParam(deref(g).type)
         ELSE FALSE

\* Mutant of equalReflect: no Equal method is looked for.
equalReflectNoMethod(type, g, w) ==
    IF isNil(g) /\ isNil(w) THEN TRUE
    ELSE IF isNil(g) \/ isNil(w) THEN FALSE
    ELSE IF g.type = "[]byte" THEN bytesEqual(g, w)
    ELSE deepEqual(deref(g), deref(w))

equalReflect(type, g, w) ==
    IF isNil(g) /\ isNil(w) THEN TRUE
    ELSE IF isNil(g) \/ isNil(w) THEN FALSE
    ELSE IF g.type = "[]byte" THEN bytesEqual(g, w)
    ELSE IF EqualParam(g.type) = type THEN MethodEqual(g, w)
    ELSE IF EqualParam(deref(g).type) # ""
         THEN MethodEqual(deref(g), deref(w))
         ELSE deepEqual(deref(g), deref(w))


(***************************************************************************)
(* assert.go, go-cmp based snapshot: the options and equaler.apply.        *)
(***************************************************************************)
\* An EqualOption applied to the equaler o.
IgnoreUnexported(o) == [o EXCEPT !.unexported = TRUE]

\* Mutant of SkipEmptyFields: the option sets nothing.
SkipEmptyFieldsUnset(o) == o

SkipEmptyFields(o) == [o EXCEPT !.skipEmptyFields = TRUE]

\* Mutant of applyOption: the option flips its field.
applyOptionFlip(name, o) ==
    IF name = "IgnoreUnexported"
    THEN [o EXCEPT !.unexported = ~@]
    ELSE [o EXCEPT !.skipEmptyFields = ~@]

applyOption(name, o) ==
    IF name = "IgnoreUnexported" THEN IgnoreUnexported(o) ELSE SkipEmptyFields(o)

\* for _, opt := range opts { opt(o) }
RECURSIVE applyOptions(_, _)
applyOptions(o, os) ==
    IF os = <<>> THEN o ELSE applyOptions(applyOption(Head(os), o), Tail(os))

\* equaler{}
equaler == [unexported |-> FALSE, skipEmptyFields |-> FALSE]

\* Mutant of apply: with skipEmptyFields set, out holds that rule alone.
applyOneRule(o, os) ==
    LET e == applyOptions(o, os)
    IN  IF e.skipEmptyFields THEN <<"compareExported", "ignoreEmptyFields">>
        ELSE IF e.unexported THEN <<"ignoreUnexported">> ELSE <<"compareExported">>

\* The cmp.Options apply returns, each named by the function that built it.
apply(o, os) ==
    LET e == applyOptions(o, os)
    IN  (IF e.unexported THEN <<"ignoreUnexported">> ELSE <<"compareExported">>)
        \o (IF e.skipEmptyFields THEN <<"ignoreEmptyFields">> ELSE <<>>)

(***************************************************************************)
(* cmdopts.go: the filters.                                                *)
(***************************************************************************)
isEmptyValue(v) ==
    CASE v.kind \in {"map", "slice", "string"} -> Len(v.elems) = 0
      [] v.kind = "array" ->
            deepEqual(v, [v EXCEPT !.elems = [j \in DOMAIN v.elems |-> IntV(0)]])
      [] v.kind \in {"bool", "int", "uint8", "float64"} -> v.n = 0
      [] v.kind \in {"interface", "ptr"} -> v.isnil
      [] OTHER ->
            IF EqualParam(v.type) # "" THEN MethodEqual(v, ZeroOf(v.type)) ELSE FALSE

\* Mutant of ignoreUnexported: the test of the name is inverted.
ignoreUnexportedInverted(name) == IsExported(name)

\* The path filter of ignoreUnexported, at the struct field name.
ignoreUnexported(name) == ~IsExported(name)

\* Mutant of ignoreEmptyFields: the got value of the field is looked at.
ignoreEmptyFieldsGot(gotv, wantv) == isEmptyValue(gotv)

\* The path filter of ignoreEmptyFields, at a struct field whose values are
\* gotv, wantv := sf.Values(); gotv is dropped.
ignoreEmptyFields(gotv, wantv) == isEmptyValue(wantv)

\* Mutant of compareExported: the unexported fields are left out.
compareExportedOnly(name) == ~IsExported(name)

\* compareExported is cmp.Exporter(func(reflect.Type) bool { return true }):
\* cmp may look into the unexported fields of every struct type. It is no
\* filter: it ignores nothing.
compareExported(name) == FALSE

\* Whether the rule ignores the struct field name, whose values are gotv and
\* wantv.
ruleIgnores(rule, name, gotv, wantv) ==
    CASE rule = "ignoreUnexported" -> ignoreUnexported(name)
      [] rule = "ignoreEmptyFields" -> ignoreEmptyFields(gotv, wantv)
      [] rule = "compareExported" -> compareExported(name)

\* cmp ignores a node when any filter with cmp.Ignore() matches its path.
Ignored(rules, name, gotv, wantv) ==
    \E i \in 1..Len(rules) : ruleIgnores(rules[i], name, gotv, wantv)

(***************************************************************************)
(* cmp.Equal under a list of rules: options first, then an Equal method    *)
(* whose parameter is the type itself, then the kind.                      *)
(***************************************************************************)
RECURSIVE cmpEqual(_, _, _)
cmpEqual(x, y, rules) ==
    IF x.kind = "invalid" \/ y.kind = "invalid" THEN x.kind = y.kind
    ELSE IF x.type # y.type THEN FALSE
    ELSE IF EqualParam(x.type) = x.type THEN MethodEqual(x, y)
    ELSE CASE x.kind = "ptr" ->
                IF x.isnil \/ y.isnil THEN x.isnil /\ y.isnil
                ELSE cmpEqual(x.elems[1], y.elems[1], rules)
           [] x.kind \in {"slice", "map"} ->
                IF x.isnil \/ y.isnil THEN x.isnil /\ y.isnil
                ELSE /\ Len(x.elems) = Len(y.elems)
                     /\ \A i \in 1..Len(x.elems) :
                            cmpEqual(x.elems[i], y.elems[i], rules)
           [] x.kind = "struct" ->
                \A i \in 1..Len(x.elems) :
                    \/ Ignored(rules, FieldNames(x.type)[i], x.elems[i], y.elems[i])
                    \/ cmpEqual(x.elems[i], y.elems[i], rules)
           [] x.kind = "array" ->
                \A i \in 1..Len(x.elems) : cmpEqual(x.elems[i], y.elems[i], rules)
           [] x.kind = "interface" ->
                IF x.isnil \/ y.isnil THEN x.isnil /\ y.isnil
                ELSE cmpEqual(x.elems[1], y.elems[1], rules)
           [] x.kind = "string" -> x.elems = y.elems
           [] x.kind = "func" -> x.isnil /\ y.isnil
           [] x.kind = "chan" -> x.addr = y.addr
           [] x.kind = "float64" -> x.n = y.n /\ x # NaN
           [] OTHER -> x.n = y.n

\* equal of the go-cmp based snapshot.
equal(g, w, os) == cmpEqual(g, w, apply(equaler, os))

\* diffValue panics when a is a fmt.GoStringer and b.(fmt.GoStringer) fails.
diffValuePanics(a, b) ==
    /\ a # Invalid
    /\ HasGoString(a.type)
    /\ (b = Invalid \/ ~HasGoString(b.type))

\* The struct fields cmp.Diff reports on, by path: the fields it visits and
\* does not ignore. An ignored field is counted in the report, not shown.
RECURSIVE cmpDiff(_, _, _, _)
cmpDiff(x, y, rules, path) ==
    IF x.kind = "invalid" \/ y.kind = "invalid" \/ x.type # y.type THEN {}
    ELSE IF EqualParam(x.type) = x.type THEN {}
    ELSE IF x.kind = "ptr"
         THEN IF x.isnil \/ y.isnil THEN {}
              ELSE cmpDiff(x.elems[1], y.elems[1], rules, path)
    ELSE IF x.kind = "struct"
         THEN UNION {
                LET name == FieldNames(x.type)[i]
                IN  IF Ignored(rules, name, x.elems[i], y.elems[i]) THEN {}
                    ELSE {Append(path, name)}
                         \cup cmpDiff(x.elems[i], y.elems[i], rules, Append(path, name)) :
                i \in 1..Len(x.elems)}
    ELSE {}

\* Mutant of diffValue: the diff is rendered without the options.
diffValueNoOptions(a, b, os) ==
    [goStrings |-> IF a # Invalid /\ HasGoString(a.type) THEN <<a, b>> ELSE <<>>,
     diff |-> cmpDiff(a, b, apply(equaler, <<>>), <<>>)]

\* diffValue of the go-cmp based snapshot: the values diffGoStringer renders
\* by their GoString, and the fields of the cmp.Diff under the options.
diffValue(a, b, os) ==
    [goStrings |-> IF a # Invalid /\ HasGoString(a.type) THEN <<a, b>> ELSE <<>>,
     diff |-> cmpDiff(a, b, apply(equaler, os), <<>>)]

\* diffValue of the reflect based snapshot: the values rendered by their
\* GoString or else dumped whole.
diffValueReflect(a, b) ==
    IF a # Invalid /\ HasGoString(a.type)
    THEN [goStrings |-> <<a, b>>, dump |-> <<>>]
    ELSE [goStrings |-> <<>>, dump |-> <<a, b>>]

\* Whether the value's dynamic type implements error: got.(error) succeeds.
isError(v) == v # Invalid /\ v.type \in ErrorTypes


(***************************************************************************)
(* Strings, as sequences of code points over the letters 'a', '.', '^'     *)
(* and '[', and the functions of strings and regexp ErrorContains calls.   *)
(***************************************************************************)
Alphabet == {97, 46, 94, 91}

Strs == UNION {[1..k -> Alphabet] : k \in 0..MaxStr}

\* strings.Contains(s, substr)
stringsContains(str, substr) ==
    \E p \in 0..Len(str) :
        /\ p + Len(substr) <= Len(str)
        /\ SubSeq(str, p + 1, p + Len(substr)) = substr

\* regexp.Compile(e) returns no error: over this alphabet every expression
\* parses but one with a '[', a character class that is never closed.
regexpCompiles(e) == 91 \notin Range(e)

\* The expression e matches str from position pos on: 'a' takes an 'a', '.'
\* takes any letter, '^' takes nothing and holds at the beginning of str.
RECURSIVE matchHere(_, _, _)
matchHere(e, str, pos) ==
    IF e = <<>> THEN TRUE
    ELSE IF Head(e) = 94 THEN pos = 0 /\ matchHere(Tail(e), str, pos)
    ELSE /\ pos < Len(str)
         /\ (Head(e) = 46 \/ str[pos + 1] = Head(e))
         /\ matchHere(Tail(e), str, pos + 1)

\* re.MatchString(str): the expression matches somewhere in str.
MatchString(e, str) == \E p \in 0..Len(str) : matchHere(e, str, p)

(***************************************************************************)
(* Errors: a value with the message its method Error returns (msg) and     *)
(* the errors its method Unwrap returns (elems).                           *)
(***************************************************************************)
ErrV(type, kind, isnil, addr, n, msg, wraps) ==
    [type |-> type, kind |-> kind, isnil |-> isnil, addr |-> addr, n |-> n,
     elems |-> wraps, msg |-> msg]

\* errors.New(msg): a pointer, equal only to itself.
NewError(addr, msg) == ErrV("*errors.errorString", "ptr", FALSE, addr, 0, msg, <<>>)

\* io.EOF, io.ErrClosedPipe, io.ErrNoProgress
Sentinels == {NewError(800 + i, <<97>>) : i \in 1..3}

\* type MyErr struct { Code int }, with func (e MyErr) Error() string: a
\* value is an error, and so is a pointer to one.
MyErrV(c) == ErrV("MyErr", "struct", FALSE, 0, c, <<97>>, <<>>)

\* &fs.PathError{Err: e}
PathErr(e) == ErrV("*fs.PathError", "ptr", FALSE, 810, 0, <<97>> \o e.msg, <<e>>)

\* (*fs.PathError)(nil) held in an error: its methods dereference nil.
NilPathErr == ErrV("*fs.PathError", "ptr", TRUE, 0, 0, <<>>, <<>>)

\* fmt.Errorf with one %w and with two.
Wrap(es) ==
    ErrV(IF Len(es) = 1 THEN "*fmt.wrapError" ELSE "*fmt.wrapErrors", "ptr", FALSE,
         820, 0, <<97>>, es)

\* The errors matched against a string: nil, errors.New of every message,
\* and the nil *fs.PathError.
MessageErrs == {Invalid, NilPathErr} \cup {NewError(800, m) : m \in Strs}

\* The errors matched against an error or a type: nil, the nil
\* *fs.PathError, and chains of two sentinels and a MyErr.
InnerErrs ==
    LET leaves == {e \in Sentinels : e.addr <= 802} \cup {MyErrV(0)}
    IN  leaves \cup {PathErr(e) : e \in leaves}

ChainErrs ==
    {Invalid, NilPathErr} \cup InnerErrs
    \cup {Wrap(<<x>>) : x \in InnerErrs}
    \cup {Wrap(<<x, y>>) : x \in InnerErrs, y \in InnerErrs}

StringTargets == {Val("string", "string", FALSE, 0, 0, e) : e \in Strs}

\* Targets that are errors: the sentinels, a MyErr, a pointer to a MyErr
\* variable, a nil *fs.PathError.
ErrorTargets ==
    Sentinels \cup
    {MyErrV(0), MyErrV(1), PtrV("*MyErr", 830, MyErrV(0)), NilPathErr}

\* Targets that are neither: pointers to variables of an error type (var
\* pathError *fs.PathError; &pathError), nil, an int, a pointer to an int, a
\* nil pointer.
OtherTargets ==
    {PtrV("**fs.PathError", 840, NilOf("*fs.PathError", "ptr")),
     PtrV("**json.SyntaxError", 841, NilOf("*json.SyntaxError", "ptr")),
     Invalid, IntV(0), PtrV("*int", 1, IntV(0)), NilOf("**fs.PathError", "ptr")}

\* reflect's Type.Elem of a pointer type.
Elem(type) ==
    CASE type = "**fs.PathError" -> "*fs.PathError"
      [] type = "**json.SyntaxError" -> "*json.SyntaxError"
      [] type = "*MyErr" -> "MyErr"
      [] type = "*int" -> "int"
      [] OTHER -> ""

\* err.Error() and x.Unwrap() panic on the nil *fs.PathError.
methodPanics(err) == err.isnil

\* errors.Is(err, target), also telling a panic: "true", "false" or "panic".
\* The errors Unwrap returns are walked in order, depth first.
RECURSIVE errorsIs(_, _)
RECURSIVE isAny(_, _, _)
errorsIs(err, target) ==
    IF err = target THEN "true"
    ELSE IF methodPanics(err) THEN "panic"
    ELSE isAny(err.elems, target, 1)

isAny(errs, target, i) ==
    IF i > Len(errs) THEN "false"
    ELSE LET r == errorsIs(errs[i], target)
         IN  IF r = "false" THEN isAny(errs, target, i + 1) ELSE r

\* errors.As panics on a target that is nil, no pointer, a nil pointer, or
\* a pointer to a type that is no error.
asTargetPanics(target) ==
    \/ target = Invalid
    \/ target.kind # "ptr"
    \/ target.isnil
    \/ Elem(target.type) \notin ErrorTypes

\* errors.As(err, target) for a target it accepts, with targetType the type
\* target points to.
RECURSIVE errorsAs(_, _)
RECURSIVE asAny(_, _, _)
errorsAs(err, targetType) ==
    IF err.type = targetType THEN "true"
    ELSE IF methodPanics(err) THEN "panic"
    ELSE asAny(err.elems, targetType, 1)

asAny(errs, targetType, i) ==
    IF i > Len(errs) THEN "false"
    ELSE LET r == errorsAs(errs[i], targetType)
         IN  IF r = "false" THEN asAny(errs, targetType, i + 1) ELSE r

(***************************************************************************)
(* The test handle: assertTB of the package's tests. events lists the      *)
(* calls made on the handle and the renderings of a diff, in order; pc     *)
(* tells how the assertion ended.                                          *)
(***************************************************************************)
NewTB ==
    [pc |-> "ready", helper |-> FALSE, failed |-> FALSE, format |-> "",
     args |-> <<>>, events |-> <<>>]

\* assertTB.Helper
Helper(h) == [h EXCEPT !.helper = TRUE, !.events = Append(@, "Helper")]

\* assertTB.Fatalf: it records the failure and returns.
Fatalf(h, format, args) ==
    [h EXCEPT !.failed = TRUE, !.format = format, !.args = args,
              !.events = Append(@, "Fatalf")]

\* A step of the assertion that is not a call on the handle, noted in events.
Called(h, name) == [h EXCEPT !.events = Append(@, name)]

Return(h) == [h EXCEPT !.pc = "returned"]

Panic(h) == [h EXCEPT !.pc = "panicked"]

\* The number of failures reported on the handle.
Fatals(h) == Cardinality({i \in DOMAIN h.events : h.events[i] = "Fatalf"})

(***************************************************************************)
(* The assertions, as the handle each leaves behind.                       *)
(***************************************************************************)
\* Mutant of EqualCall: the diff is rendered before the values are compared.
EqualCallEagerDiff(h, g, w, os) ==
    IF isError(g) THEN Panic(h)
    ELSE IF diffValuePanics(g, w) THEN Panic(Called(Helper(h), "diffValue"))
    ELSE IF ~equal(g, w, os)
         THEN Return(Fatalf(Called(Helper(h), "diffValue"),
                            "expected equal\n%s", <<diffValue(g, w, os)>>))
         ELSE Return(Called(Helper(h), "diffValue"))

\* Equal of the go-cmp based snapshot. The argument of Fatalf, diffValue, is
\* evaluated before Fatalf is called.
EqualCall(h, g, w, os) ==
    IF isError(g) THEN Panic(h)
    ELSE IF ~equal(g, w, os)
         THEN IF diffValuePanics(g, w)
              THEN Panic(Called(Helper(h), "diffValue"))
              ELSE Return(Fatalf(Called(Helper(h), "diffValue"),
                                 "expected equal\n%s", <<diffValue(g, w, os)>>))
         ELSE Return(Helper(h))

NotEqualCall(h, g, w, os) ==
    IF isError(g) THEN Panic(h)
    ELSE IF equal(g, w, os)
         THEN Return(Fatalf(Helper(h), "expected not equal, but got equal", <<>>))
         ELSE Return(Helper(h))

\* Equal and NotEqual of the reflect based snapshot.
EqualReflectCall(h, type, g, w) ==
    IF isError(g) THEN Panic(h)
    ELSE IF equalReflectPanics(type, g, w) THEN Panic(Helper(h))
    ELSE IF ~equalReflect(type, g, w)
         THEN IF diffValuePanics(g, w)
              THEN Panic(Called(Helper(h), "diffValue"))
              ELSE Return(Fatalf(Called(Helper(h), "diffValue"),
                                 "expected equal\n%s", <<diffValueReflect(g, w)>>))
         ELSE Return(Helper(h))

NotEqualReflectCall(h, type, g, w) ==
    IF isError(g) THEN Panic(h)
    ELSE IF equalReflectPanics(type, g, w) THEN Panic(Helper(h))
    ELSE IF equalReflect(type, g, w)
         THEN Return(Fatalf(Helper(h), "expected not equal, but got equal", <<>>))
         ELSE Return(Helper(h))

\* got == *new(T): Go's == with the zero value of the static type.
RECURSIVE isZeroValue(_)
isZeroValue(v) ==
    CASE v.kind = "invalid" -> TRUE
      [] v.kind \in {"ptr", "chan"} -> v.isnil
      [] v.kind = "struct" -> \A i \in 1..Len(v.elems) : isZeroValue(v.elems[i])
      [] OTHER -> v.n = 0

eqZero(type, g) ==
    IF type \in {"any", "error"} THEN g = Invalid ELSE isZeroValue(g)

ZeroCall(h, type, g) ==
    IF ~eqZero(type, g)
    THEN Return(Fatalf(Helper(h), "expected zero, got %v", <<g>>))
    ELSE Return(Helper(h))

NotZeroCall(h, type, g) ==
    IF eqZero(type, g)
    THEN Return(Fatalf(Helper(h), "expected not zero, got %v", <<g>>))
    ELSE Return(Helper(h))

\* Mutant of NilCall: Helper is called before the error is refused.
NilCallHelperFirst(h, g) ==
    IF isError(g) THEN Panic(Helper(h))
    ELSE IF ~isNil(g)
         THEN Return(Fatalf(Helper(h), "expected nil, got %v", <<g>>))
         ELSE Return(Helper(h))

NilCall(h, g) ==
    IF isError(g) THEN Panic(h)
    ELSE IF ~isNil(g)
         THEN Return(Fatalf(Helper(h), "expected nil, got %v", <<g>>))
         ELSE Return(Helper(h))

NotNilCall(h, g) ==
    IF isError(g) THEN Panic(h)
    ELSE IF isNil(g)
         THEN Return(Fatalf(Helper(h), "expected not nil, got nil", <<>>))
         ELSE Return(Helper(h))

\* Error
ErrorCall(h, err) ==
    IF err = Invalid
    THEN Return(Fatalf(Helper(h), "expected error, got nil", <<>>))
    ELSE Return(Helper(h))

\* NoError
NoErrorCall(h, err) ==
    IF err # Invalid
    THEN Return(Fatalf(Helper(h), "unexpected error: %v", <<err>>))
    ELSE Return(Helper(h))

\* ErrorWant
ErrorWantCall(h, w, err) ==
    IF w /\ err = Invalid
    THEN Return(Fatalf(Helper(h), "expected error: got nil", <<>>))
    ELSE IF ~w /\ err # Invalid
    THEN Return(Fatalf(Helper(h), "unexpected error: %v", <<err>>))
    ELSE Return(Helper(h))

\* reflect's Value.Len panics on a value that has no length.
lenPanics(v) == v.kind \notin {"array", "chan", "map", "slice", "string"}

\* reflect's Value.Len; a map lists a key and a value for each entry, a
\* channel of the universe has no buffer.
reflectLen(v) ==
    CASE v.kind = "map" -> Len(v.elems) \div 2
      [] v.kind = "chan" -> 0
      [] OTHER -> Len(v.elems)

\* Len
LenCall(h, g, w) ==
    LET h1 == Helper(h)
    IN  IF lenPanics(g) THEN Panic(h1)
        ELSE IF reflectLen(g) # w
        THEN Return(Fatalf(h1, "expected length %d, got %d", <<w, reflectLen(g)>>))
        ELSE Return(h1)

\* Mutant of TrueCall: Helper is called on the failing path only.
TrueCallHelperOnFailure(h, b) ==
    IF ~b
    THEN Return(Fatalf(Helper(h), "expected true, got false", <<>>))
    ELSE Return(h)

\* True
TrueCall(h, b) ==
    IF ~b
    THEN Return(Fatalf(Helper(h), "expected true, got false", <<>>))
    ELSE Return(Helper(h))

\* False
FalseCall(h, b) ==
    IF b
    THEN Return(Fatalf(Helper(h), "expected false, got true", <<>>))
    ELSE Return(Helper(h))

\* The functions given to Panic and NotPanic, and those given to Defer.
PanicFuncs == {"return", "panic(0)", "panic(nil)"}

DeferFuncs == {"return nil", "return err"}

\* recover() in a function deferred around the call of fb: "nil" when fb
\* returned, the value of the panic otherwise, and for panic(nil) the
\* *runtime.PanicNilError the runtime (go 1.21 and later) puts in its place.
recover(fb) ==
    CASE fb = "panic(0)" -> "0"
      [] fb = "panic(nil)" -> "PanicNilError"
      [] OTHER -> "nil"

\* Mutant of PanicCall: the deferred function does not recover.
PanicCallNoRecover(h, fb) ==
    LET h1 == Called(Helper(h), "f")
    IN  IF fb = "return"
        THEN Return(Fatalf(Helper(h1), "expected panic, got nothing", <<>>))
        ELSE Panic(Helper(h1))

\* Panic: f is called, then the deferred function runs.
PanicCall(h, fb) ==
    LET h1 == Helper(Called(Helper(h), "f"))
    IN  IF recover(fb) = "nil"
        THEN Return(Fatalf(h1, "expected panic, got nothing", <<>>))
        ELSE Return(h1)

\* NotPanic
NotPanicCall(h, fb) ==
    LET h1 == Helper(Called(Helper(h), "f"))
    IN  IF recover(fb) # "nil"
        THEN Return(Fatalf(h1, "unexpected panic: %v", <<recover(fb)>>))
        ELSE Return(h1)

\* Mutant of DeferCall: fn is called at once, the error checked later.
DeferCallEager(h, fn) == Return(Called(Helper(h), "fn"))

\* Defer: it returns the function funcCall models.
DeferCall(h, fn) == Return(Helper(h))

\* The function Defer returns, called.
funcCall(h, fn) ==
    LET h1 == Called(h, "fn")
    IN  IF fn = "return err"
        THEN Fatalf(h1, "unexpected defer error: %v", <<"err">>)
        ELSE h1

\* got.(V) of TypeAssert: for the interface types every value but nil
\* (any), every error (error); for the others, the values of the type.
assertOk(type, g) ==
    /\ g # Invalid
    /\ CASE type = "any" -> TRUE
         [] type = "error" -> isError(g)
         [] OTHER -> g.type = type

\* TypeAssert
TypeAssertCall(h, type, g) ==
    IF ~assertOk(type, g)
    THEN Return(Fatalf(Helper(h), "assertion %T.(%T) failed", <<type, g>>))
    ELSE Return(Helper(h))

\* Mutant of deferRecover: nothing recovers the panic.
deferNothing(h) == Panic(h)

\* The deferred function of ErrorContains, run by a panic: recover, report.
deferRecover(h) == Return(Fatalf(h, "error.Is/As panic %s", <<>>))

\* Mutant of matchString: the regular expression is tried without the
\* contains check before it.
matchStringRegexpFirst(h, err, e) ==
    IF methodPanics(err) THEN deferRecover(h)
    ELSE IF regexpCompiles(e)
    THEN IF ~MatchString(e, err.msg)
         THEN Return(Fatalf(h, "unexpected error: %q does not match %q", <<err, e>>))
         ELSE Return(h)
    ELSE IF ~stringsContains(err.msg, e)
         THEN Return(Fatalf(h, "unexpected error: %q does not contain %q", <<err, e>>))
         ELSE Return(h)

\* ErrorContains, case string.
matchString(h, err, e) ==
    IF methodPanics(err) THEN deferRecover(h)
    ELSE IF ~stringsContains(err.msg, e)
    THEN IF regexpCompiles(e)
         THEN IF ~MatchString(e, err.msg)
              THEN Return(Fatalf(h, "unexpected error: %q does not match %q", <<err, e>>))
              ELSE Return(h)
         ELSE Return(Fatalf(h, "unexpected error: %q does not contain %q", <<err, e>>))
    ELSE Return(h)

\* ErrorContains, case error.
matchError(h, err, e) ==
    LET r == errorsIs(err, e)
    IN  IF r = "panic" THEN deferRecover(h)
        ELSE IF r = "false"
        THEN Return(Fatalf(h, "unexpected error: %q is not %T", <<err, e>>))
        ELSE Return(h)

\* ErrorContains, the default case.
matchType(h, err, e) ==
    IF asTargetPanics(e) THEN deferRecover(h)
    ELSE LET r == errorsAs(err, Elem(e.type))
         IN  IF r = "panic" THEN deferRecover(h)
             ELSE IF r = "false"
             THEN Return(Fatalf(h, "unexpected error: %q is not %T", <<err, e>>))
             ELSE Return(h)

\* Mutant of ErrorContainsCall: a nil err is matched like any other.
ErrorContainsCallNoNilGuard(h, err, target) ==
    LET h1 == Helper(h)
    IN  IF target # Invalid /\ target.kind = "string"
        THEN matchString(h1, err, target.elems)
        ELSE IF isError(target) THEN matchError(h1, err, target)
        ELSE matchType(h1, err, target)

\* ErrorContains
ErrorContainsCall(h, err, target) ==
    LET h1 == Helper(h)
    IN  IF err = Invalid THEN Return(Fatalf(h1, "error is nil", <<>>))
        ELSE IF target # Invalid /\ target.kind = "string"
        THEN matchString(h1, err, target.elems)
        ELSE IF isError(target) THEN matchError(h1, err, target)
        ELSE matchType(h1, err, target)

(***************************************************************************)
(* The suite: a *testing.T as the test function, Setup and the cleanup     *)
(* see it, and the instances of testSuite, a struct with the field r.      *)
(* events lists the calls of the suite's methods and the test body, in     *)
(* order; cleanups lists the instances whose Teardown t.Cleanup holds.     *)
(***************************************************************************)
NewT ==
    [pc |-> "running", helper |-> FALSE, failed |-> FALSE, panicking |-> FALSE,
     cleanups |-> <<>>, events |-> <<>>]

\* What a call returned, when the model keeps it.
NoRet == [kind |-> "none", s |-> 0]

\* The ways a method of the suite and the test body end: they return, they
\* report with t.Errorf and return, they leave with t.FailNow (t.Fatal) or
\* t.SkipNow, they panic.
Outcomes == {"returns", "Errorf", "FailNow", "SkipNow", "panic"}

\* t.Errorf, t.FailNow, t.SkipNow and a panic, as they mark the test; the
\* last three end the test function, and the deferred calls of tRunner run.
leave(t, how) ==
    [t EXCEPT !.failed = @ \/ how \in {"Errorf", "FailNow", "panic"},
              !.panicking = (how = "panic"),
              !.pc = IF how \in {"FailNow", "SkipNow", "panic"} THEN "cleanup" ELSE @]

\* (*testSuite).Setup and (*testSuite).Teardown on instance i.
\* A call noted in events: the method or function, the instance it is
\* called on, how it ends, and the values of r it reads.
Event(call, i, how, seen) == [call |-> call, s |-> i, how |-> how, seen |-> seen]

suiteSetup(t, i, how) == leave([t EXCEPT !.events = Append(@, Event("Setup", i, how, <<>>))], how)

\* In a cleanup t.Errorf marks the test as it does in the test function.
suiteTeardown(t, i, how) ==
    [t EXCEPT !.events = Append(@, Event("Teardown", i, how, <<>>)),
              !.failed = @ \/ how = "Errorf"]

\* t.Cleanup(func() { s.Teardown(t) })
tCleanup(t, i) == [t EXCEPT !.cleanups = Append(@, i)]

\* Mutant of SetupCall: Teardown is not registered with t.Cleanup, it is
\* called when Setup returns.
SetupCallTeardownAtReturn(t, ss, how) ==
    LET i == Len(ss) + 1
        t1 == suiteSetup([t EXCEPT !.helper = TRUE], i, how)
    IN  IF t1.pc = "running"
        THEN [test |-> suiteTeardown(t1, i, "returns"), suite |-> Append(ss, [r |-> 0]),
              ret |-> [kind |-> "suite", s |-> i]]
        ELSE [test |-> t1, suite |-> Append(ss, [r |-> 4]), ret |-> NoRet]

\* Mutant of SetupCall: Teardown is registered before the suite's Setup
\* method is called.
SetupCallCleanupFirst(t, ss, how) ==
    LET i == Len(ss) + 1
        t1 == suiteSetup(tCleanup([t EXCEPT !.helper = TRUE], i), i, how)
    IN  [test |-> t1, suite |-> Append(ss, [r |-> 4]),
         ret |-> IF t1.pc = "running" THEN [kind |-> "suite", s |-> i] ELSE NoRet]

\* Setup[V, S](t), with the suite's Setup method ending as how says: the
\* new instance, its Setup, and, when that returns, t.Cleanup and return.
SetupCall(t, ss, how) ==
    LET i == Len(ss) + 1
        t1 == suiteSetup([t EXCEPT !.helper = TRUE], i, how)
    IN  IF t1.pc = "running"
        THEN [test |-> tCleanup(t1, i), suite |-> Append(ss, [r |-> 4]),
              ret |-> [kind |-> "suite", s |-> i]]
        ELSE [test |-> t1, suite |-> Append(ss, [r |-> 4]), ret |-> NoRet]

\* Mutant of endTest: the cleanups run only when the test function returns.
endTestCleanupOnReturn(t, how) ==
    LET t1 == [leave(t, how) EXCEPT !.pc = "cleanup"]
    IN  IF how \in {"returns", "Errorf"} THEN t1 ELSE [t1 EXCEPT !.cleanups = <<>>]

\* The test function ends as how says: tRunner's deferred calls run the
\* cleanups, also when the function left with FailNow, SkipNow or a panic.
endTest(t, how) == [leave(t, how) EXCEPT !.pc = "cleanup"]

(***************************************************************************)
(* The state machine: a test calls the assertions on its arguments, each   *)
(* call on a handle of its own (atb = &assertTB{TB: t}).                   *)
(***************************************************************************)
\* The types Zero and NotZero accept: T comparable.
Comparable ==
    Types \ {"[]byte", "net.IP", "[]*int", "map[int]int", "func()"}

Options == {"IgnoreUnexported", "SkipEmptyFields"}

\* opts ...EqualOption: every list of at most MaxOpts options, in any order
\* and with repetitions.
OptionLists == UNION {[1..k -> Options] : k \in 0..MaxOpts}

\* No function argument, no suite, no concurrent calls.
NoFunc == f = "" /\ ret = NoRet

NoSuite == test = NewT /\ suite = <<>>

NoCalls == calls = [mem |-> <<>>, g |-> <<>>]

\* The types the values compared are of, and the cases of ErrorContains.
ValueTypes == Types \cup BoxTypes

Cases == {"case string", "case error", "default"}

Args(types, optionLists) ==
    /\ V \in types
    /\ got \in Universe(V)
    /\ want \in Universe(V)
    /\ opts \in optionLists
    /\ op = ""
    /\ atb = NewTB
    /\ NoFunc /\ NoSuite /\ NoCalls

Equal ==
    /\ V \in ValueTypes
    /\ op' = "Equal"
    /\ atb' = EqualCall(NewTB, got, want, opts)
    /\ UNCHANGED <<V, got, want, opts, f, ret, test, suite, calls>>

NotEqual ==
    /\ V \in ValueTypes
    /\ op' = "NotEqual"
    /\ atb' = NotEqualCall(NewTB, got, want, opts)
    /\ UNCHANGED <<V, got, want, opts, f, ret, test, suite, calls>>

EqualReflect ==
    /\ V \in ValueTypes
    /\ op' = "EqualReflect"
    /\ atb' = EqualReflectCall(NewTB, V, got, want)
    /\ UNCHANGED <<V, got, want, opts, f, ret, test, suite, calls>>

NotEqualReflect ==
    /\ V \in ValueTypes
    /\ op' = "NotEqualReflect"
    /\ atb' = NotEqualReflectCall(NewTB, V, got, want)
    /\ UNCHANGED <<V, got, want, opts, f, ret, test, suite, calls>>

Zero ==
    /\ V \in Comparable
    /\ op' = "Zero"
    /\ atb' = ZeroCall(NewTB, V, got)
    /\ UNCHANGED <<V, got, want, opts, f, ret, test, suite, calls>>

NotZero ==
    /\ V \in Comparable
    /\ op' = "NotZero"
    /\ atb' = NotZeroCall(NewTB, V, got)
    /\ UNCHANGED <<V, got, want, opts, f, ret, test, suite, calls>>

Nil ==
    /\ V \in ValueTypes
    /\ op' = "Nil"
    /\ atb' = NilCall(NewTB, got)
    /\ UNCHANGED <<V, got, want, opts, f, ret, test, suite, calls>>

NotNil ==
    /\ V \in ValueTypes
    /\ op' = "NotNil"
    /\ atb' = NotNilCall(NewTB, got)
    /\ UNCHANGED <<V, got, want, opts, f, ret, test, suite, calls>>

\* The go-cmp based snapshot under every option list.
Init == Args(Types, OptionLists)

Next == Equal \/ NotEqual

Spec == Init /\ [][Next]_vars

\* The reflect based snapshot, which takes no options.
InitReflect == Args(Types, {<<>>})

NextReflect == EqualReflect \/ NotEqualReflect

SpecReflect == InitReflect /\ [][NextReflect]_vars

\* The checks of both snapshots, called without options.
InitUsage == Args(Types, {<<>>})

NextUsage ==
    \/ Equal \/ NotEqual
    \/ EqualReflect \/ NotEqualReflect
    \/ Nil \/ NotNil
    \/ Zero \/ NotZero

SpecUsage == InitUsage /\ [][NextUsage]_vars

\* ErrorContains on an error and a target: V names the case of the type
\* switch the target takes: "case string", "case error" or "default".
ErrorContains ==
    /\ V \in Cases
    /\ op' = "ErrorContains"
    /\ atb' = ErrorContainsCall(NewTB, got, want)
    /\ UNCHANGED <<V, got, want, opts, f, ret, test, suite, calls>>

InitError ==
    /\ \/ V = "case string" /\ got \in MessageErrs /\ want \in StringTargets
       \/ V = "case error" /\ got \in ChainErrs /\ want \in ErrorTargets
       \/ V = "default" /\ got \in ChainErrs /\ want \in OtherTargets
    /\ opts = <<>>
    /\ op = ""
    /\ atb = NewTB
    /\ NoFunc /\ NoSuite /\ NoCalls

NextError == ErrorContains

SpecError == InitError /\ [][NextError]_vars

\* Setup[testSuite](t), called in the test function.
Setup ==
    /\ test.pc = "running"
    /\ Len(suite) < MaxSuites
    /\ \E how \in Outcomes :
          LET r == SetupCall(test, suite, how)
          IN  /\ test' = r.test
              /\ suite' = r.suite
              /\ ret' = r.ret
    /\ op' = "Setup"
    /\ UNCHANGED <<V, got, want, opts, atb, f, calls>>

\* The test function after its calls of Setup: it reads r of the instances
\* Setup returned and ends.
TestBody ==
    /\ test.pc = "running"
    /\ \E how \in Outcomes :
          test' = endTest([test EXCEPT !.events =
                              Append(@, Event("TestBody", 0, how,
                                              [i \in DOMAIN suite |-> suite[i].r]))],
                          how)
    /\ op' = "TestBody"
    /\ UNCHANGED <<V, got, want, opts, atb, f, ret, suite, calls>>

\* t.runCleanup: the function registered last is called, s.Teardown(t).
Teardown ==
    /\ test.pc = "cleanup"
    /\ test.cleanups # <<>>
    /\ \E how \in {"returns", "Errorf"} :
          LET n == Len(test.cleanups)
              i == test.cleanups[n]
          IN  /\ test' = suiteTeardown([test EXCEPT !.cleanups = SubSeq(@, 1, n - 1)], i, how)
              /\ suite' = [suite EXCEPT ![i].r = 0]
    /\ op' = "Teardown"
    /\ UNCHANGED <<V, got, want, opts, atb, f, ret, calls>>

\* tRunner after the cleanups: the test is reported, or the panic goes on.
Report ==
    /\ test.pc = "cleanup"
    /\ test.cleanups = <<>>
    /\ test' = [test EXCEPT !.pc = IF test.panicking THEN "panicked" ELSE "done"]
    /\ op' = "Report"
    /\ UNCHANGED <<V, got, want, opts, atb, f, ret, suite, calls>>

\* TestSuite: one test function that calls Setup up to MaxSuites times.
InitSuite ==
    /\ V = "testSuite"
    /\ got = Invalid
    /\ want = Invalid
    /\ opts = <<>>
    /\ op = ""
    /\ atb = NewTB
    /\ test = NewT
    /\ suite = <<>>
    /\ ret = NoRet
    /\ f = ""
    /\ NoCalls

NextSuite == Setup \/ TestBody \/ Teardown \/ Report

SpecSuite == InitSuite /\ [][NextSuite]_vars

\* The assertions on an error, a length and a bool draw their arguments.
Error ==
    /\ \E err \in Errors : atb' = ErrorCall(NewTB, err)
    /\ op' = "Error"
    /\ UNCHANGED <<V, got, want, opts, f, ret, test, suite, calls>>

NoError ==
    /\ \E err \in Errors : atb' = NoErrorCall(NewTB, err)
    /\ op' = "NoError"
    /\ UNCHANGED <<V, got, want, opts, f, ret, test, suite, calls>>

ErrorWant ==
    /\ \E w \in BOOLEAN, err \in Errors : atb' = ErrorWantCall(NewTB, w, err)
    /\ op' = "ErrorWant"
    /\ UNCHANGED <<V, got, want, opts, f, ret, test, suite, calls>>

\* Len[V](t, got, l), for every l up to MaxLen.
Len_ ==
    /\ V \in Types
    /\ got # Invalid
    /\ \E l \in 0..MaxLen : atb' = LenCall(NewTB, got, l)
    /\ op' = "Len"
    /\ UNCHANGED <<V, got, want, opts, f, ret, test, suite, calls>>

True ==
    /\ \E b \in BOOLEAN : atb' = TrueCall(NewTB, b)
    /\ op' = "True"
    /\ UNCHANGED <<V, got, want, opts, f, ret, test, suite, calls>>

False ==
    /\ \E b \in BOOLEAN : atb' = FalseCall(NewTB, b)
    /\ op' = "False"
    /\ UNCHANGED <<V, got, want, opts, f, ret, test, suite, calls>>

\* TypeAssert[T](t, got), for every type T of the universe.
TypeAssert ==
    /\ V \in Types
    /\ \E T \in Types : atb' = TypeAssertCall(NewTB, T, got)
    /\ op' = "TypeAssert"
    /\ UNCHANGED <<V, got, want, opts, f, ret, test, suite, calls>>

\* Panic(t, f) and NotPanic(t, f)
Panic_ ==
    /\ f \in PanicFuncs
    /\ op' = "Panic"
    /\ atb' = PanicCall(NewTB, f)
    /\ UNCHANGED <<V, got, want, opts, f, ret, test, suite, calls>>

NotPanic ==
    /\ f \in PanicFuncs
    /\ op' = "NotPanic"
    /\ atb' = NotPanicCall(NewTB, f)
    /\ UNCHANGED <<V, got, want, opts, f, ret, test, suite, calls>>

\* Defer(t, fn): ret is the function it returns, not yet called.
Defer ==
    /\ f \in DeferFuncs
    /\ op' = "Defer"
    /\ atb' = DeferCall(NewTB, f)
    /\ ret' = [kind |-> "func", s |-> 0]
    /\ UNCHANGED <<V, got, want, opts, f, test, suite, calls>>

\* A call of the function Defer returned, on the handle Defer was given;
\* ret.s counts the calls.
DeferFunc ==
    /\ op \in {"Defer", "DeferFunc"}
    /\ ret.kind = "func"
    /\ ret.s < MaxCalls
    /\ op' = "DeferFunc"
    /\ atb' = funcCall(atb, f)
    /\ ret' = [ret EXCEPT !.s = @ + 1]
    /\ UNCHANGED <<V, got, want, opts, f, test, suite, calls>>

\* Every assertion: the comparisons on values of a type, ErrorContains on
\* its cases, and (V = "func") the assertions on a function.
InitAssert ==
    \/ Args(Types, {<<>>})
    \/ InitError
    \/ /\ V = "func"
       /\ f \in PanicFuncs \cup DeferFuncs
       /\ got = Invalid /\ want = Invalid /\ opts = <<>>
       /\ op = "" /\ atb = NewTB /\ ret = NoRet
       /\ NoSuite /\ NoCalls

NextAssert ==
    \/ Equal \/ NotEqual
    \/ EqualReflect \/ NotEqualReflect
    \/ Error \/ NoError \/ ErrorWant \/ ErrorContains
    \/ Nil \/ NotNil
    \/ Zero \/ NotZero
    \/ Len_ \/ True \/ False \/ TypeAssert
    \/ Panic_ \/ NotPanic \/ Defer \/ DeferFunc

SpecAssert == InitAssert /\ [][NextAssert]_vars

(***************************************************************************)
(* Concurrent calls of equal on got and want, one in each goroutine with   *)
(* its own options.  calls.mem is the memory that holds the equalers, by   *)
(* address; calls.g[i] is the call of goroutine i: where it is, its        *)
(* options, those apply has still to run, the address of its equaler, the  *)
(* cmp.Options apply returned, and the result.                             *)
(***************************************************************************)
\* The option lists of the concurrent calls: no option given twice.
CallOptions == {os \in OptionLists : Cardinality(Range(os)) = Len(os)}

\* The values the concurrent calls compare: the T with fields 0 (empty)
\* and 1.
ParallelValues == {StructV("T", <<a, b>>) : a \in {IntV(0), IntV(1)}, b \in {IntV(0), IntV(1)}}

NewCall(os) ==
    [pc |-> "eq", opts |-> os, range |-> os, eq |-> 0, out |-> <<>>, result |-> FALSE]

\* Mutant of newEqualer: one equaler, at address 1, serves every call.
newEqualerShared(mem) == 1

\* eq := equaler{}: the address of the variable, which no other call has.
newEqualer(mem) == Len(mem) + 1

\* equal: eq := equaler{}
equalEq ==
    /\ \E i \in DOMAIN calls.g :
          /\ calls.g[i].pc = "eq"
          /\ LET a == newEqualer(calls.mem)
             IN  calls' = [mem |-> IF a > Len(calls.mem)
                                  THEN Append(calls.mem, equaler)
                                  ELSE [calls.mem EXCEPT ![a] = equaler],
                           g |-> [calls.g EXCEPT ![i].pc = "range", ![i].eq = a]]
    /\ op' = "equalEq"
    /\ UNCHANGED <<V, got, want, opts, atb, f, ret, test, suite>>

\* apply: one turn of for _, opt := range opts { opt(o) }
applyRange ==
    /\ \E i \in DOMAIN calls.g :
          LET c == calls.g[i]
          IN  /\ c.pc = "range"
              /\ c.range # <<>>
              /\ calls' = [mem |-> [calls.mem EXCEPT ![c.eq] = applyOption(Head(c.range), @)],
                            g |-> [calls.g EXCEPT ![i].range = Tail(c.range)]]
    /\ op' = "applyRange"
    /\ UNCHANGED <<V, got, want, opts, atb, f, ret, test, suite>>

\* apply: after the loop, out is built from the fields of o and returned.
applyOut ==
    /\ \E i \in DOMAIN calls.g :
          LET c == calls.g[i]
          IN  /\ c.pc = "range"
              /\ c.range = <<>>
              /\ calls' = [calls EXCEPT !.g[i].pc = "cmp",
                                         !.g[i].out = apply(calls.mem[c.eq], <<>>)]
    /\ op' = "applyOut"
    /\ UNCHANGED <<V, got, want, opts, atb, f, ret, test, suite>>

\* equal: return cmp.Equal(got, want, cmpOpts...)
equalCmp ==
    /\ \E i \in DOMAIN calls.g :
          LET c == calls.g[i]
          IN  /\ c.pc = "cmp"
              /\ calls' = [calls EXCEPT !.g[i].pc = "done",
                                         !.g[i].result = cmpEqual(got, want, c.out)]
    /\ op' = "equalCmp"
    /\ UNCHANGED <<V, got, want, opts, atb, f, ret, test, suite>>

InitParallel ==
    /\ V = "T"
    /\ got \in ParallelValues
    /\ want \in ParallelValues
    /\ opts = <<>>
    /\ op = ""
    /\ atb = NewTB
    /\ NoFunc /\ NoSuite
    /\ \E os \in [1..Goroutines -> CallOptions] :
          calls = [mem |-> <<>>, g |-> [i \in 1..Goroutines |-> NewCall(os[i])]]

NextParallel == equalEq \/ applyRange \/ applyOut \/ equalCmp

SpecParallel == InitParallel /\ [][NextParallel]_vars

\* The go-cmp based snapshot on structs of one field, of every kind.
InitFields ==
    /\ V \in BoxTypes
    /\ got \in BoxUniverse(V)
    /\ want \in BoxUniverse(V)
    /\ opts \in OptionLists
    /\ op = ""
    /\ atb = NewTB
    /\ NoFunc /\ NoSuite /\ NoCalls

NextFields == Equal \/ NotEqual

SpecFields == InitFields /\ [][NextFields]_vars


(***************************************************************************)
(* Notions the properties are stated with, read off the values and not     *)
(* computed by the code under check.                                       *)
(***************************************************************************)
\* The value is a nil interface, pointer, slice, map, func or chan.
NilValue(v) == v = Invalid \/ v.isnil

\* Same length and the same byte at every index.
SameBytes(a, b) ==
    /\ Len(a.elems) = Len(b.elems)
    /\ \A i \in 1..Len(a.elems) : a.elems[i] = b.elems[i]

\* The static type a pointer type points to.
ElemType(type) ==
    CASE type = "*int" -> "int"
      [] type = "**int" -> "*int"
      [] type = "*time.Time" -> "time.Time"

PointerTypes == {"*int", "**int", "*time.Time"}

\* The value with every unexported struct field, at any depth, blanked.
RECURSIVE ExportedPart(_)
ExportedPart(v) ==
    IF v.kind = "struct"
    THEN [v EXCEPT !.elems =
            [i \in DOMAIN v.elems |->
                IF IsExported(FieldNames(v.type)[i])
                THEN ExportedPart(v.elems[i])
                ELSE Invalid]]
    ELSE v

PlainStructs == {"T", "O"}

\* The int fields of a T or an O, nested ones included: A, b; In.A, In.b, c.
Leaves(v) ==
    IF v.type = "O" THEN v.elems[1].elems \o <<v.elems[2]>> ELSE v.elems

\* got and want differ at most at int fields that are 0 in want.
DifferOnlyAtEmpty(g, w) ==
    \A j \in 1..Len(Leaves(w)) :
        Leaves(w)[j].n = 0 \/ Leaves(g)[j] = Leaves(w)[j]

\* The value is empty as the specification has it: a string, slice or map
\* of length zero; an array of zeros; a nil pointer, interface or func; for
\* every other kind the zero value of its type (for a type with a method
\* Equal, a value its Equal holds equal to the zero value).
EmptyAsSpecified(v) ==
    CASE v.kind \in {"string", "slice", "map"} -> Len(v.elems) = 0
      [] v.kind = "array" -> \A j \in 1..Len(v.elems) : v.elems[j].n = 0
      [] v.kind \in {"ptr", "interface", "func"} -> v.isnil
      [] v.kind = "struct" /\ EqualParam(v.type) # "" -> v.elems[1].n = 0
      [] OTHER -> isZeroValue(v)

\* The rules for a set of options: the rule on unexported fields first,
\* then the rule on empty fields.
RulesFor(S) ==
    (IF "IgnoreUnexported" \in S THEN <<"ignoreUnexported">> ELSE <<"compareExported">>)
    \o (IF "SkipEmptyFields" \in S THEN <<"ignoreEmptyFields">> ELSE <<>>)

\* The fields of a T, O or G the options S exclude from the comparison of g
\* and w, by path: the unexported ones under IgnoreUnexported, the int
\* fields that are 0 in w under SkipEmptyFields.
RECURSIVE ExcludedPaths(_, _, _, _)
ExcludedPaths(g, w, S, path) ==
    UNION {
        LET name == FieldNames(w.type)[i]
        IN  IF \/ "IgnoreUnexported" \in S /\ ~IsExported(name)
               \/ "SkipEmptyFields" \in S /\ w.elems[i].kind = "int" /\ w.elems[i].n = 0
            THEN {Append(path, name)}
            ELSE IF w.elems[i].kind = "struct"
                 THEN ExcludedPaths(g.elems[i], w.elems[i], S, Append(path, name))
                 ELSE {} :
        i \in 1..Len(w.elems)}

\* Every field of a struct value, by path.
RECURSIVE AllPaths(_, _)
AllPaths(v, path) ==
    IF v.kind # "struct" THEN {}
    ELSE UNION {{Append(path, FieldNames(v.type)[i])}
                    \cup AllPaths(v.elems[i], Append(path, FieldNames(v.type)[i])) :
                i \in 1..Len(v.elems)}

\* The fields a rendered message shows: those of its diff and all fields of
\* the values rendered by GoString.
FieldsShown(msg) ==
    msg.diff \cup UNION {AllPaths(msg.goStrings[i], <<>>) : i \in 1..Len(msg.goStrings)}

StructTypes == {"T", "O", "G"}

Returned == atb.pc = "returned"

Panicked == atb.pc = "panicked"

(***************************************************************************)
(* C1. For two non-error values of one type and any options, Equal         *)
(* reports exactly one failure, "expected equal...", when the comparison   *)
(* decides not equal and none when it decides equal; NotEqual reports      *)
(* exactly one failure, "expected not equal, but got equal", when it       *)
(* decides equal and none otherwise; both return to the caller, so         *)
(* exactly one of the two reports a failure.                               *)
(***************************************************************************)
C1_EqualNotEqualReport ==
    ~isError(got) =>
        /\ op = "Equal" =>
            /\ Returned
            /\ Fatals(atb) = (IF equal(got, want, opts) THEN 0 ELSE 1)
            /\ atb.failed => atb.format = "expected equal\n%s"
        /\ op = "NotEqual" =>
            /\ Returned
            /\ Fatals(atb) = (IF equal(got, want, opts) THEN 1 ELSE 0)
            /\ atb.failed => atb.format = "expected not equal, but got equal"
        /\ op \in {"Equal", "NotEqual"} =>
            /\ EqualCall(NewTB, got, want, opts).pc = "returned"
            /\ NotEqualCall(NewTB, got, want, opts).pc = "returned"
            /\ Fatals(EqualCall(NewTB, got, want, opts))
                + Fatals(NotEqualCall(NewTB, got, want, opts)) = 1

(***************************************************************************)
(* C2. equal(got, want) of the reflect based snapshot is true when got     *)
(* and want are both nil and false when exactly one of them is, whatever   *)
(* the other value is; Equal and NotEqual report accordingly.              *)
(***************************************************************************)
C2_NilRule ==
    /\ (NilValue(got) /\ NilValue(want)) =>
        /\ ~equalReflectPanics(V, got, want)
        /\ equalReflect(V, got, want)
    /\ (NilValue(got) # NilValue(want)) =>
        /\ ~equalReflectPanics(V, got, want)
        /\ ~equalReflect(V, got, want)
    /\ (op = "NotEqualReflect" /\ ~isError(got) /\ (NilValue(got) \/ NilValue(want))) =>
        /\ Returned
        /\ atb.failed = (NilValue(got) /\ NilValue(want))

C2_Witness ==
    /\ op = "NotEqualReflect"
    /\ V = "map[int]int"
    /\ NilValue(got)
    /\ ~NilValue(want)
    /\ want.elems = <<>>
    /\ Returned
    /\ ~atb.failed

(***************************************************************************)
(* C3. Pointers are compared by the values they point to: for two          *)
(* non-nil pointers at different addresses, equal is true exactly when     *)
(* the pointed-to values are equal, and so for pointers held in a slice.   *)
(***************************************************************************)
C3_PointeesDecide ==
    /\ (/\ op = "EqualReflect"
        /\ V \in PointerTypes
        /\ ~NilValue(got)
        /\ ~NilValue(want)
        /\ got.addr # want.addr) =>
        /\ Returned
        /\ atb.failed = ~equalReflect(ElemType(V), got.elems[1], want.elems[1])
    /\ (/\ op = "EqualReflect"
        /\ V = "[]*int"
        /\ ~NilValue(got)
        /\ ~NilValue(want)
        /\ Len(got.elems) = Len(want.elems)) =>
        /\ Returned
        /\ atb.failed
            = ~(\A i \in 1..Len(got.elems) :
                    equalReflect("*int", got.elems[i], want.elems[i]))

(***************************************************************************)
(* C4, as claimed. When the type of got and want, or the type they point   *)
(* to, has a method Equal, equal(got, want) is what the method returns     *)
(* for them, nil receivers of a slice type included.                       *)
(***************************************************************************)
C4_MethodDecidesAlways ==
    /\ (op = "EqualReflect" /\ V \in {"time.Time", "net.IP"}) =>
        /\ Returned
        /\ atb.failed = ~MethodEqual(got, want)
    /\ (op = "EqualReflect" /\ V = "*time.Time" /\ ~NilValue(got) /\ ~NilValue(want)) =>
        /\ Returned
        /\ atb.failed = ~MethodEqual(got.elems[1], want.elems[1])

(***************************************************************************)
(* C4, amended. When neither got nor want is nil and their type, or the    *)
(* type they point to, has a method Equal, equal(got, want) is what the    *)
(* method returns for the values (the pointed-to values), also where the   *)
(* fields differ; Equal and NotEqual report accordingly.                   *)
(***************************************************************************)
C4_MethodDecides ==
    (V \in {"time.Time", "net.IP", "*time.Time"} /\ ~NilValue(got) /\ ~NilValue(want)) =>
        LET g == IF V = "*time.Time" THEN got.elems[1] ELSE got
            w == IF V = "*time.Time" THEN want.elems[1] ELSE want
        IN  /\ ~equalReflectPanics(V, got, want)
            /\ equalReflect(V, got, want) = MethodEqual(g, w)
            /\ op = "EqualReflect" => (Returned /\ atb.failed = ~MethodEqual(g, w))
            /\ op = "NotEqualReflect" => (Returned /\ atb.failed = MethodEqual(g, w))

C4_Witness ==
    /\ op = "EqualReflect"
    /\ V = "*time.Time"
    /\ ~NilValue(got)
    /\ ~NilValue(want)
    /\ got.elems[1].elems[1] = want.elems[1].elems[1]
    /\ got.elems[1].elems[2] # want.elems[1].elems[2]
    /\ Returned
    /\ ~atb.failed

(***************************************************************************)
(* C5, as claimed. Two byte slices are equal exactly when they have the    *)
(* same length and the same bytes at every index.                          *)
(***************************************************************************)
C5_BytesByContentAlways ==
    (op = "EqualReflect" /\ V = "[]byte") =>
        /\ Returned
        /\ atb.failed = ~SameBytes(got, want)

(***************************************************************************)
(* C5, amended. Two non-nil byte slices are equal exactly when they have   *)
(* the same length and the same bytes at every index, whether or not       *)
(* they share storage; a nil byte slice equals only a nil one.             *)
(***************************************************************************)
C5_BytesByContent ==
    V = "[]byte" =>
        /\ ~equalReflectPanics(V, got, want)
        /\ equalReflect(V, got, want)
            = IF NilValue(got) \/ NilValue(want)
              THEN NilValue(got) /\ NilValue(want)
              ELSE SameBytes(got, want)
        /\ (op = "EqualReflect" /\ ~NilValue(got) /\ ~NilValue(want)) =>
            (Returned /\ atb.failed = ~SameBytes(got, want))

C5_Witness ==
    /\ op = "EqualReflect"
    /\ V = "[]byte"
    /\ ~NilValue(got)
    /\ ~NilValue(want)
    /\ got.addr # want.addr
    /\ Len(got.elems) = MaxLen
    /\ SameBytes(got, want)
    /\ Returned
    /\ ~atb.failed

(***************************************************************************)
(* C6. equal is reflexive: equal(v, v) is true for every non-error value   *)
(* v, in the reflect based snapshot and, under every option list, in the   *)
(* go-cmp based one. Stated for the nil values, pointers, byte slices,     *)
(* structs, slices, maps, chans and types with an Equal method; a NaN and  *)
(* a non-nil func, which neither reflect.DeepEqual nor cmp.Equal holds     *)
(* equal to itself, are left aside.                                        *)
(***************************************************************************)
C6_Reflexive ==
    (want = got /\ ~isError(got) /\ V \notin {"float64", "func()"}) =>
        /\ op = "EqualReflect" => (Returned /\ ~atb.failed)
        /\ op = "NotEqualReflect" => (Returned /\ atb.failed)
        /\ op # "" => \A os \in OptionLists : equal(got, want, os)

(***************************************************************************)
(* C7. Equal, NotEqual, Nil and NotNil given a got that is an error        *)
(* panic, before Helper is called and before any failure is reported.      *)
(***************************************************************************)
C7_ErrorGotPanics ==
    (op \in {"Equal", "NotEqual", "Nil", "NotNil"} /\ isError(got)) =>
        /\ Panicked
        /\ ~atb.helper
        /\ ~atb.failed
        /\ atb.events = <<>>

C7_Witness ==
    /\ op = "NotNil"
    /\ isError(got)
    /\ NilValue(got)
    /\ Panicked

(***************************************************************************)
(* C8. Zero and NotZero given an error value panic, like the equality      *)
(* and nil checks, and report neither a pass nor a failure.                *)
(***************************************************************************)
C8_ZeroErrorPanics ==
    (op \in {"Zero", "NotZero"} /\ isError(got)) =>
        /\ Panicked
        /\ ~atb.failed

(***************************************************************************)
(* C9. With IgnoreUnexported the unexported struct fields are left out:    *)
(* structs that differ only in unexported fields compare equal, whatever   *)
(* other options are given, and with IgnoreUnexported alone structs that   *)
(* differ in an exported field compare not equal.                          *)
(***************************************************************************)
C9_IgnoreUnexported ==
    (V \in PlainStructs /\ "IgnoreUnexported" \in Range(opts)) =>
        /\ ExportedPart(got) = ExportedPart(want) => equal(got, want, opts)
        /\ opts = <<"IgnoreUnexported">> =>
            /\ equal(got, want, opts) = (ExportedPart(got) = ExportedPart(want))
            /\ op = "Equal" =>
                (Returned /\ atb.failed = (ExportedPart(got) # ExportedPart(want)))

C9_Witness ==
    /\ op = "Equal"
    /\ V = "O"
    /\ opts = <<"IgnoreUnexported">>
    /\ got # want
    /\ ExportedPart(got) = ExportedPart(want)
    /\ got.elems[1] # want.elems[1]
    /\ Returned
    /\ ~atb.failed

(***************************************************************************)
(* C10, as claimed. Without IgnoreUnexported only exported fields are      *)
(* compared: structs that differ only in an unexported field compare       *)
(* equal.                                                                  *)
(***************************************************************************)
C10_DefaultComparesExportedOnly ==
    (/\ op = "Equal"
     /\ V \in PlainStructs
     /\ opts = <<>>
     /\ ExportedPart(got) = ExportedPart(want)) =>
        /\ Returned
        /\ ~atb.failed

(***************************************************************************)
(* C10, amended. Without options every field, exported or not, is          *)
(* compared: structs compare equal exactly when they agree on all          *)
(* fields, so structs that differ only in an unexported field compare      *)
(* not equal and Equal reports a failure.                                  *)
(***************************************************************************)
C10_DefaultComparesAllFields ==
    (V \in PlainStructs /\ opts = <<>>) =>
        /\ equal(got, want, opts) = (got = want)
        /\ op = "Equal" => (Returned /\ atb.failed = (got # want))

C10_Witness ==
    /\ op = "Equal"
    /\ V = "T"
    /\ opts = <<>>
    /\ got # want
    /\ ExportedPart(got) = ExportedPart(want)
    /\ Returned
    /\ atb.failed

(***************************************************************************)
(* C11. With SkipEmptyFields every struct field whose want value is empty  *)
(* is left out: a got and a want that differ only at fields that are       *)
(* empty in want compare equal with the option and not equal without       *)
(* options, and a difference at a field that is not empty in want is       *)
(* still seen.                                                             *)
(***************************************************************************)
C11_SkipEmptyFields ==
    V \in PlainStructs =>
        /\ equal(got, want, <<"SkipEmptyFields">>) = DifferOnlyAtEmpty(got, want)
        /\ ("SkipEmptyFields" \in Range(opts) /\ DifferOnlyAtEmpty(got, want)) =>
                equal(got, want, opts)
        /\ (DifferOnlyAtEmpty(got, want) /\ got # want) => ~equal(got, want, <<>>)
        /\ (op = "Equal" /\ opts = <<"SkipEmptyFields">>) =>
            (Returned /\ atb.failed = ~DifferOnlyAtEmpty(got, want))
        /\ (op = "Equal" /\ opts = <<>> /\ got # want) => (Returned /\ atb.failed)

C11_Witness ==
    /\ op = "Equal"
    /\ V = "T"
    /\ opts = <<"SkipEmptyFields">>
    /\ got = StructV("T", <<IntV(1), IntV(1)>>)
    /\ want = StructV("T", <<IntV(0), IntV(1)>>)
    /\ ~equal(got, want, <<>>)
    /\ Returned
    /\ ~atb.failed

(***************************************************************************)
(* C12. The empty-field rule looks only at the want side: a field is       *)
(* skipped exactly when its want value is empty, whatever its got value    *)
(* is. A field that is empty in got and not in want is compared, so under  *)
(* SkipEmptyFields got = {A:1}, want = {A:0} is equal, got = {A:0},        *)
(* want = {A:1} is not, and the comparison is not symmetric.               *)
(***************************************************************************)
C12_WantSideOnly ==
    (V \in PlainStructs /\ opts = <<"SkipEmptyFields">>) =>
        /\ (\A j \in 1..Len(Leaves(want)) : Leaves(want)[j].n = 0) =>
            /\ equal(got, want, opts)
            /\ op = "Equal" => (Returned /\ ~atb.failed)
        /\ (\E j \in 1..Len(Leaves(want)) :
                Leaves(want)[j].n # 0 /\ Leaves(got)[j] # Leaves(want)[j]) =>
            /\ ~equal(got, want, opts)
            /\ op = "Equal" => (Returned /\ atb.failed)

C12_Witness ==
    /\ op = "Equal"
    /\ V = "T"
    /\ opts = <<"SkipEmptyFields">>
    /\ got = StructV("T", <<IntV(0), IntV(0)>>)
    /\ want = StructV("T", <<IntV(1), IntV(0)>>)
    /\ equal(want, got, opts)
    /\ Returned
    /\ atb.failed

(***************************************************************************)
(* C13. A want field counts as empty exactly when it is a string, slice    *)
(* or map of length zero, an array whose elements are all zero, a nil      *)
(* pointer, interface or func, or, for every other kind, the zero value    *)
(* of its type: with SkipEmptyFields a struct field at which got and want  *)
(* differ is left out exactly in these cases.                              *)
(***************************************************************************)
C13_EmptyCases ==
    (op = "Equal" /\ opts = <<"SkipEmptyFields">>) =>
        /\ isEmptyValue(want.elems[1]) = EmptyAsSpecified(want.elems[1])
        /\ (V # "Box[T]" /\ ~equal(got, want, <<>>)) =>
            /\ Returned
            /\ atb.failed = ~EmptyAsSpecified(want.elems[1])

(***************************************************************************)
(* C14. The rules a call resolves depend only on which options were        *)
(* given, not on their order or on repetitions: the rule on unexported     *)
(* fields first, then the rule on empty fields; every list of the same     *)
(* options gives the same rules and the same verdict, and resolving the    *)
(* options once more on the same equaler gives the same rules.             *)
(***************************************************************************)
C14_OrderIndependent ==
    op # "" =>
        /\ apply(equaler, opts) = RulesFor(Range(opts))
        /\ apply(applyOptions(equaler, opts), opts) = apply(equaler, opts)
        /\ \A os \in OptionLists :
                Range(os) = Range(opts) =>
                    /\ apply(equaler, os) = apply(equaler, opts)
                    /\ equal(got, want, os) = equal(got, want, opts)
        /\ (op = "Equal" /\ Returned) =>
                atb.failed = ~cmpEqual(got, want, RulesFor(Range(opts)))
        /\ (op = "NotEqual" /\ Returned) =>
                atb.failed = cmpEqual(got, want, RulesFor(Range(opts)))

C14_Witness ==
    /\ op = "Equal"
    /\ V = "T"
    /\ opts = <<"SkipEmptyFields", "IgnoreUnexported", "SkipEmptyFields">>
    /\ apply(equaler, opts) = <<"ignoreUnexported", "ignoreEmptyFields">>
    /\ ~equal(got, want, <<>>)
    /\ Returned
    /\ ~atb.failed

(***************************************************************************)
(* C15, as claimed. The failure message of Equal never shows, in any of    *)
(* its parts, a field that the resolved rules exclude from the             *)
(* comparison.                                                             *)
(***************************************************************************)
C15_NoExcludedFieldShown ==
    (op = "Equal" /\ V \in StructTypes /\ atb.failed) =>
        FieldsShown(atb.args[1]) \cap ExcludedPaths(got, want, Range(opts), <<>>) = {}

(***************************************************************************)
(* C15, amended. The diff in the failure message of Equal is rendered      *)
(* with the rules that decided equality: it shows no field those rules     *)
(* exclude, even when got and want differ there, and it shows a field      *)
(* they compare. For a got with a method GoString the message also         *)
(* carries got and want as their GoString renders them, whole.             *)
(***************************************************************************)
C15_DiffSuppression ==
    (op = "Equal" /\ V \in StructTypes /\ atb.failed) =>
        /\ atb.args[1].diff \cap ExcludedPaths(got, want, Range(opts), <<>>) = {}
        /\ atb.args[1].diff # {}
        /\ atb.args[1].goStrings = IF V = "G" THEN <<got, want>> ELSE <<>>

C15_Witness ==
    /\ op = "Equal"
    /\ V = "T"
    /\ opts = <<"IgnoreUnexported">>
    /\ got.elems[1] # want.elems[1]
    /\ got.elems[2] # want.elems[2]
    /\ atb.failed
    /\ atb.args[1].diff = {<<FieldNames("T")[1]>>}

(***************************************************************************)
(* C16. The diff is rendered only on the failing path: a call of Equal     *)
(* whose values compare equal never runs diffValue, a call that reports    *)
(* a failure ran it once and before Fatalf, and NotEqual never runs it.    *)
(***************************************************************************)
C16_LazyDiff ==
    LET diffs == {i \in DOMAIN atb.events : atb.events[i] = "diffValue"}
    IN  /\ (op \in {"NotEqual", "NotEqualReflect"}) => diffs = {}
        /\ (op = "Equal" /\ ~isError(got) /\ equal(got, want, opts)) =>
                (Returned /\ diffs = {} /\ atb.args = <<>>)
        /\ (op = "EqualReflect" /\ Returned /\ ~atb.failed) =>
                (diffs = {} /\ atb.args = <<>>)
        /\ (op \in {"Equal", "EqualReflect"} /\ atb.failed) =>
                atb.events = <<"Helper", "diffValue", "Fatalf">>

C16_Witness ==
    /\ op = "Equal"
    /\ V = "time.Time"
    /\ equal(got, want, opts)
    /\ got # want
    /\ Returned
    /\ atb.events = <<"Helper">>

\* The errors of the unwrap chain of err: err and all it wraps.
RECURSIVE Chain(_)
Chain(err) == {err} \cup UNION {Chain(err.elems[i]) : i \in DOMAIN err.elems}

\* target is the address of a variable whose type is an error type.
PointsToErrorVar(target) ==
    /\ target # Invalid
    /\ target.kind = "ptr"
    /\ ~target.isnil
    /\ Elem(target.type) \in ErrorTypes

\* The formats of the failures that start "unexpected error:".
UnexpectedFormats ==
    {"unexpected error: %q does not match %q",
     "unexpected error: %q does not contain %q",
     "unexpected error: %q is not %T"}

C18_RegexpDecides ==
    (/\ op = "ErrorContains" /\ V = "case string" /\ got # Invalid /\ ~got.isnil
     /\ regexpCompiles(want.elems)
     /\ ~MatchString(want.elems, got.msg)) =>
        Fatals(atb) = 1

(***************************************************************************)
(* C19. For an err whose chain holds no nil pointer and a target that is   *)
(* no string: with the address of an error-typed variable as target the    *)
(* call passes exactly when some error of the chain has the variable's     *)
(* type, with any other error value as target it passes exactly when some  *)
(* error of the chain is the target; a call that does not pass reports     *)
(* exactly one failure, which starts "unexpected error:".                  *)
(***************************************************************************)
C19_ChainMatch ==
    (/\ op = "ErrorContains" /\ V \in {"case error", "default"} /\ got # Invalid /\ ~got.isnil
     /\ (isError(want) \/ PointsToErrorVar(want))) =>
        LET pass == IF PointsToErrorVar(want)
                    THEN \E x \in Chain(got) : x.type = Elem(want.type)
                    ELSE want \in Chain(got)
        IN  /\ Returned
            /\ pass <=> (Fatals(atb) = 0)
            /\ ~pass => (Fatals(atb) = 1 /\ atb.format \in UnexpectedFormats)

(***************************************************************************)
(* C20. No call of ErrorContains panics.  A call whose matching panics -   *)
(* errors.As given a nil target, a target that is no pointer, a nil        *)
(* pointer or a pointer to a type that is no error; the methods of a nil   *)
(* pointer err - reports exactly one failure, "error.Is/As panic ...",     *)
(* and returns.                                                            *)
(***************************************************************************)
C20_PanicRecovered ==
    (op = "ErrorContains") =>
        /\ Returned
        /\ (/\ got # Invalid
            /\ \/ V = "default" /\ asTargetPanics(want)
               \/ V = "case string" /\ got.isnil) =>
                (Fatals(atb) = 1 /\ atb.format = "error.Is/As panic %s")

\* A sentinel against the target 0, which errors.As rejects with a panic.
C20_Witness ==
    /\ op = "ErrorContains"
    /\ V = "default"
    /\ got \in Sentinels
    /\ want = IntV(0)
    /\ Returned
    /\ atb.events = <<"Helper", "Fatalf">>
    /\ atb.format = "error.Is/As panic %s"

(***************************************************************************)
(* C21. ErrorContains with a nil err marks the helper, reports exactly     *)
(* one failure, "error is nil", and returns, without a match being tried,  *)
(* whatever the target is: a string, an error, or a target on which        *)
(* errors.As panics.                                                       *)
(***************************************************************************)
C21_NilErr ==
    (op = "ErrorContains" /\ got = Invalid) =>
        /\ Returned
        /\ Fatals(atb) = 1
        /\ atb.format = "error is nil"
        /\ atb.events = <<"Helper", "Fatalf">>

\* A nil err against the target nil, on which errors.As panics.
C21_Witness ==
    /\ op = "ErrorContains"
    /\ got = Invalid
    /\ V = "default"
    /\ asTargetPanics(want)
    /\ atb.format = "error is nil"

\* The places in the events of the test of the calls of a method on
\* instance i (of the test body, with i = 0).
Calls(call, i) ==
    {k \in DOMAIN test.events : test.events[k].call = call /\ test.events[k].s = i}

\* Setup[S] returned instance i: the suite's Setup method did not leave.
Obtained(i) ==
    \E k \in Calls("Setup", i) : test.events[k].how \in {"returns", "Errorf"}

\* The test function and the cleanups are over.
Ended == test.pc \in {"done", "panicked"}

(***************************************************************************)
(* C22. Every call of Setup[S] makes a new instance and calls its Setup    *)
(* method exactly once; the call that returns returns that instance.  For  *)
(* an instance Setup[S] returned, Teardown is called at most once, never   *)
(* while the test function runs, and exactly once when the test has        *)
(* ended; Setup comes before the test body and the test body before        *)
(* Teardown; the test body reads the r Setup wrote, and after the test r   *)
(* is what Teardown wrote.                                                 *)
(***************************************************************************)
C22_SetupBodyTeardown ==
    /\ \A i \in DOMAIN suite :
          /\ Cardinality(Calls("Setup", i)) = 1
          /\ Obtained(i) =>
                /\ Cardinality(Calls("Teardown", i)) <= 1
                /\ test.pc = "running" => Calls("Teardown", i) = {}
                /\ Ended => (Cardinality(Calls("Teardown", i)) = 1 /\ suite[i].r = 0)
                /\ \A k \in Calls("Setup", i), d \in Calls("Teardown", i) : k < d
                /\ \A b \in Calls("TestBody", 0) :
                      /\ \A k \in Calls("Setup", i) : k < b
                      /\ \A d \in Calls("Teardown", i) : b < d
                      /\ test.events[b].seen[i] = 4
    /\ (op = "Setup" /\ ret.kind = "suite") =>
            (ret.s = Len(suite) /\ Obtained(ret.s) /\ test.helper)

\* Two instances, the test body, both Teardowns, the test reported.
C22_Witness ==
    /\ test.pc = "done"
    /\ Len(suite) = 2
    /\ Obtained(1) /\ Obtained(2)
    /\ Calls("TestBody", 0) # {}
    /\ Calls("Teardown", 1) # {} /\ Calls("Teardown", 2) # {}
    /\ suite[1].r = 0 /\ suite[2].r = 0

(***************************************************************************)
(* C23. When the test has failed - the test body or a later Setup          *)
(* reported with Errorf, left with FailNow, or panicked - Teardown has     *)
(* been called, once the test has ended, on every instance Setup[S]        *)
(* returned, and after the test body.                                      *)
(***************************************************************************)
C23_TeardownOnFailure ==
    (Ended /\ test.failed) =>
        \A i \in DOMAIN suite :
            Obtained(i) =>
                \E d \in Calls("Teardown", i) :
                    \A b \in Calls("TestBody", 0) : b < d

\* The test body panics with an instance set up; Teardown runs on it.
C23_Witness ==
    /\ test.pc = "panicked"
    /\ test.failed
    /\ Len(suite) = 1
    /\ Obtained(1)
    /\ \E b \in Calls("TestBody", 0) : test.events[b].how = "panic"
    /\ Calls("Teardown", 1) # {}

(***************************************************************************)
(* C29. When the suite's Setup method leaves the test with FailNow or      *)
(* SkipNow or panics, Setup[S] returns no instance, no Teardown is         *)
(* registered for the instance, and none is ever called on it.             *)
(***************************************************************************)
C29_NoTeardownAfterAbortedSetup ==
    \A i \in DOMAIN suite :
        ~Obtained(i) =>
            /\ Calls("Teardown", i) = {}
            /\ i \notin Range(test.cleanups)
            /\ ret # [kind |-> "suite", s |-> i]
            /\ (op = "Setup" /\ i = Len(suite)) => (ret = NoRet /\ test.pc = "cleanup")

\* The second Setup left with FailNow; the test ended with one Teardown.
C29_Witness ==
    /\ test.pc = "done"
    /\ Len(suite) = 2
    /\ Obtained(1)
    /\ \E k \in Calls("Setup", 2) : test.events[k].how = "FailNow"
    /\ Calls("Teardown", 1) # {}
    /\ Calls("Teardown", 2) = {}

(***************************************************************************)
(* C24. Every call of an assertion function that has returned has marked   *)
(* the handle with Helper, whether it reported a failure or not, and       *)
(* every failure reported on the handle - by the function, by a function   *)
(* it deferred, by the function Defer returned - comes after a Helper.     *)
(***************************************************************************)
C24_HelperMarked ==
    (op # "" /\ Returned) =>
        /\ atb.helper
        /\ "Helper" \in Range(atb.events)
        /\ \A k \in DOMAIN atb.events :
              atb.events[k] = "Fatalf" =>
                  \E j \in 1..(k - 1) : atb.events[j] = "Helper"

\* True(t, true): passed, and marked.
C24_Witness ==
    /\ op = "True"
    /\ Returned
    /\ ~atb.failed
    /\ atb.events = <<"Helper">>

\* The number of calls of the function argument noted on the handle.
CallsOf(name) == Cardinality({k \in DOMAIN atb.events : atb.events[k] = name})

(***************************************************************************)
(* C25. Panic and NotPanic call f exactly once and return, whether f       *)
(* panics or not.  Panic reports exactly one failure, "expected panic,     *)
(* got nothing", when f returns and none when f panics; NotPanic reports   *)
(* exactly one failure, "unexpected panic: ...", when f panics and none    *)
(* when f returns.                                                         *)
(***************************************************************************)
C25_PanicNotPanic ==
    /\ (op \in {"Panic", "NotPanic"}) => (Returned /\ CallsOf("f") = 1)
    /\ (op = "Panic") =>
            IF f = "return"
            THEN Fatals(atb) = 1 /\ atb.format = "expected panic, got nothing"
            ELSE Fatals(atb) = 0
    /\ (op = "NotPanic") =>
            IF f = "return"
            THEN Fatals(atb) = 0
            ELSE Fatals(atb) = 1 /\ atb.format = "unexpected panic: %v"

\* Panic(t, func() { panic(nil) }) passes.
C25_Witness ==
    /\ op = "Panic"
    /\ f = "panic(nil)"
    /\ Returned
    /\ atb.events = <<"Helper", "f", "Helper">>

(***************************************************************************)
(* C26. Defer(t, fn) marks the helper and returns without calling fn or    *)
(* reporting; while the function it returns is not called, fn is not       *)
(* called and nothing is reported.  Each call of the returned function     *)
(* calls fn once, and reports one failure, "unexpected defer error: ...",  *)
(* when fn returns an error and none when fn returns nil.                  *)
(***************************************************************************)
C26_Defer ==
    /\ (op = "Defer") =>
            (Returned /\ ret.kind = "func" /\ ret.s = 0 /\ atb.events = <<"Helper">>)
    /\ (op \in {"Defer", "DeferFunc"}) =>
            /\ CallsOf("fn") = ret.s
            /\ Fatals(atb) = IF f = "return err" THEN ret.s ELSE 0
            /\ atb.failed => atb.format = "unexpected defer error: %v"
            /\ \A k \in DOMAIN atb.events :
                  atb.events[k] = "Fatalf" => (k > 1 /\ atb.events[k - 1] = "fn")

\* The returned function called twice with an fn that returns an error.
C26_Witness ==
    /\ op = "DeferFunc"
    /\ f = "return err"
    /\ ret.s = 2
    /\ atb.events = <<"Helper", "fn", "Fatalf", "fn", "Fatalf">>

(***************************************************************************)
(* C27. Concurrent calls of equal do not share an equaler, and under       *)
(* every interleaving of their steps each call gets from apply the         *)
(* cmp.Options of its own options and returns what equal returns for its   *)
(* arguments when it runs alone.                                           *)
(***************************************************************************)
C27_CallsIsolated ==
    \A i \in DOMAIN calls.g :
        LET c == calls.g[i]
        IN  /\ \A j \in DOMAIN calls.g :
                  (j # i /\ c.eq # 0) => calls.g[j].eq # c.eq
            /\ c.pc \in {"cmp", "done"} => c.out = apply(equaler, c.opts)
            /\ c.pc = "done" => c.result = equal(got, want, c.opts)

\* Two calls on one pair of values have ended with different results.
C27_Witness ==
    /\ DOMAIN calls.g = 1..Goroutines
    /\ \A i \in DOMAIN calls.g : calls.g[i].pc = "done"
    /\ calls.g[1].opts = <<>>
    /\ calls.g[2].opts = <<"IgnoreUnexported">>
    /\ ~calls.g[1].result
    /\ calls.g[2].result

(***************************************************************************)
(* C28. Options only relax the comparison: when got and want compare       *)
(* equal under a list of options, they compare equal under the list with   *)
(* one more option, put at any place in it; so a call of Equal that        *)
(* passed passes with the option added, and a call of NotEqual that        *)
(* failed fails with it.                                                   *)
(***************************************************************************)
C28_OptionsRelax ==
    (op \in {"Equal", "NotEqual"} /\ Returned /\ (atb.failed <=> op = "NotEqual")) =>
        \A o \in Options, k \in 0..Len(opts) :
            LET more == SubSeq(opts, 1, k) \o <<o>> \o SubSeq(opts, k + 1, Len(opts))
            IN  /\ equal(got, want, more)
                /\ Fatals(EqualCall(NewTB, got, want, more)) = 0
                /\ Fatals(NotEqualCall(NewTB, got, want, more)) = 1

\* Two values of T that differ in b pass Equal under IgnoreUnexported.
C28_Witness ==
    /\ op = "Equal"
    /\ V = "T"
    /\ opts = <<"IgnoreUnexported">>
    /\ got.elems[2] # want.elems[2]
    /\ want.elems[2] # IntV(0)
    /\ Returned
    /\ ~atb.failed

====
